---- MODULE Spec2Model ----
(***************************************************************************)
(* State-machine model of the PromptMaster studio.                         *)
(*                                                                         *)
(* Part 1: the adjustment history engine of components/ImageEditor.tsx:    *)
(* the working adjustment vector, the bounded undo/redo log and the five   *)
(* handlers that change them.  Every handler of the component is a pure    *)
(* operator on the component state (a record of the three useState cells); *)
(* an action applies one handler, so one action = one event handler run    *)
(* to completion followed by React's re-render.                            *)
(*                                                                         *)
(* Positions are 0-based as in the source; a TLA+ sequence is 1-based, so  *)
(* the entry at position p is history[p + 1].                              *)
(*                                                                         *)
(* Part 2: the remote client of services/gemini (GeminiService): one call  *)
(* through callWithRetry is a record that moves request -> delay ->        *)
(* request ... -> settled; the remote service answers each request with    *)
(* any of a small set of responses.                                        *)
(*                                                                         *)
(* Part 3: the connection-health handlers of App.tsx (checkHealth, the     *)
(* cooldown effect, handleSearch), which await calls of part 2.            *)
(*                                                                         *)
(* Part 4: the image calls: handleGenerate of each PromptCard of           *)
(* components/PromptFinder.tsx and handleAIEdit of App.tsx.                *)
(*                                                                         *)
(* Part 5: the response parser of deepScanInternet, on texts of tokens.    *)
(*                                                                         *)
(* Part 6: filterString of components/ImageEditor.tsx.                     *)
(***************************************************************************)
EXTENDS Integers, Sequences, FiniteSets, TLC

VARIABLES
    adjustments,    \* useState cell: the working vector
    history,        \* useState cell: the log of committed vectors
    historyIndex,   \* useState cell: the current position (0-based)
    lastOp,         \* the handler that ran last ("init" before any)
    pre,            \* the three cells as they were when that handler started,
                    \* and the handler that had run before it (op)
    commitRun,      \* appending commits since the last undo/redo/reset
    undoRun,        \* undo calls made back to back after that run
    resetCount,     \* resets made so far (bounded in the long-run scenario)
    apiKey,         \* process.env.API_KEY
    svc,            \* SpecRetry: the service call in progress
    lastCall,       \* SpecRetry: the call that has settled, until the next is made
    connection,     \* App useState cell
    cooldown,       \* App useState cell
    error,          \* App useState cell
    isSearching,    \* App useState cell
    probes,         \* checkHealth runs awaiting testKeyAccess, by slot
    search,         \* the handleSearch run awaiting deepScanInternet
    effectDue,      \* the cooldown effect has to run (a dependency changed)
    appEvent,       \* the App handler step that ran last
    lastStarted,    \* SpecOverlap: the probe started last and what it came to
    cards,          \* PromptCard useState cells (isGenerating, generatedImage), by index
    synth,          \* handleGenerate runs awaiting generateStudioImage, by slot
    activeImage,    \* App useState cell
    isProcessing,   \* App useState cell
    refine,         \* the handleAIEdit run awaiting refineImage
    responseText,   \* SpecParse: response.text of a discovery request, by section
    prompts,        \* SpecParse: the prompts deepScanInternet made of it
    filterArgs,     \* SpecFilter: two adjustment vectors that get rendered
    filterOut       \* SpecFilter: the filterString of each

countVars == <<commitRun, undoRun>>
editorVars == <<adjustments, history, historyIndex, lastOp, pre, commitRun, undoRun, resetCount>>
retryVars == <<svc, lastCall>>
appVars == <<connection, cooldown, error, isSearching, probes, search, effectDue, appEvent>>
imageVars == <<cards, synth, activeImage, isProcessing, refine>>
parseVars == <<responseText, prompts>>
filterVars == <<filterArgs, filterOut>>
studioVars == <<imageVars, parseVars, filterVars>>
vars == <<adjustments, history, historyIndex, lastOp, pre, commitRun, undoRun, resetCount,
          apiKey, svc, lastCall,
          connection, cooldown, error, isSearching, probes, search, effectDue, appEvent,
          lastStarted,
          cards, synth, activeImage, isProcessing, refine,
          responseText, prompts, filterArgs, filterOut>>

(***************************************************************************)
(* Program constants                                                       *)
(***************************************************************************)
Channels ==
    {"brightness", "contrast", "saturation", "exposure", "hue", "vibrance", "sharpness"}

DEFAULT_ADJUSTMENTS ==
    [brightness |-> 100, contrast |-> 100, saturation |-> 100, exposure |-> 100,
     hue |-> 0, vibrance |-> 100, sharpness |-> 0]

\* "if (newHistory.length > 25) newHistory.shift()"
HISTORY_LIMIT == 25

\* README: "Full 25-step Undo/Redo functionality"
UNDO_STEPS == 25

\* <input type="range" min="0" max={max}>: max defaults to 200, hue 360, sharpness 100
SliderMin == 0

\* Mutant: every slider is given the maximum of the hue slider
SliderMax_OfHue(key) == 360

SliderMax(key) ==
    CASE key = "hue" -> 360
      [] key = "sharpness" -> 100
      [] OTHER -> 200

(***************************************************************************)
(* Bounds of the model                                                     *)
(***************************************************************************)
\* Spec: the log is explored with free inputs up to this many entries
MaxHist == 4

\* SpecLong / SpecDepth: one-unit brightness gestures go up to 100 + MaxDrag
\* (25 commits fill the log past its capacity; each further one evicts again)
MaxDrag == 26

\* SpecLong: resets per run
MaxResets == 2

\* SpecRange: the log is explored with the three kinds of slider up to
\* this many entries
MaxRangeHist == 3

(***************************************************************************)
(* The component state and helpers                                         *)
(***************************************************************************)
St == [adjustments |-> adjustments, history |-> history, historyIndex |-> historyIndex]

\* history[historyIndex] of the source
Entry(s) == s.history[s.historyIndex + 1]

\* JSON.stringify of an ImageAdjustments object: its values in key order
\* (object spread keeps the key order of DEFAULT_ADJUSTMENTS)
JSONstringify(v) ==
    <<v.brightness, v.contrast, v.saturation, v.exposure, v.hue, v.vibrance, v.sharpness>>

Min(a, b) == IF a < b THEN a ELSE b

(***************************************************************************)
(* Handlers, as operators on the component state                           *)
(***************************************************************************)
\* Mutant: the capacity check is missing
pushToHistory_NoEvict(s, newAdjustments) ==
    LET sliced == SubSeq(s.history, 1, s.historyIndex + 1)
        newHistory == Append(sliced, newAdjustments)
    IN  [s EXCEPT !.history = newHistory, !.historyIndex = Len(newHistory) - 1]

\* Mutant: the redo branch is not sliced off
pushToHistory_NoSlice(s, newAdjustments) ==
    LET pushed == Append(s.history, newAdjustments)
        newHistory == IF Len(pushed) > HISTORY_LIMIT THEN Tail(pushed) ELSE pushed
    IN  [s EXCEPT !.history = newHistory, !.historyIndex = Len(newHistory) - 1]

\* Mutant: the entry before the newest is evicted instead of the oldest
pushToHistory_EvictsRecent(s, newAdjustments) ==
    LET sliced == SubSeq(s.history, 1, s.historyIndex + 1)
        pushed == Append(sliced, newAdjustments)
        newHistory == IF Len(pushed) > HISTORY_LIMIT
                      THEN Append(SubSeq(sliced, 1, Len(sliced) - 1), newAdjustments)
                      ELSE pushed
    IN  [s EXCEPT !.history = newHistory, !.historyIndex = Len(newHistory) - 1]

pushToHistory(s, newAdjustments) ==
    LET sliced == SubSeq(s.history, 1, s.historyIndex + 1)
        pushed == Append(sliced, newAdjustments)
        newHistory == IF Len(pushed) > HISTORY_LIMIT THEN Tail(pushed) ELSE pushed
    IN  [s EXCEPT !.history = newHistory, !.historyIndex = Len(newHistory) - 1]

\* Mutant: the position moves but the working vector is not restored
undo_KeepsVector(s) ==
    IF s.historyIndex > 0
    THEN [s EXCEPT !.historyIndex = s.historyIndex - 1]
    ELSE s

\* Mutant: the working vector is read at the old position
undo_ReadsOldIndex(s) ==
    IF s.historyIndex > 0
    THEN [s EXCEPT !.historyIndex = s.historyIndex - 1,
                   !.adjustments = s.history[s.historyIndex + 1]]
    ELSE s

undo(s) ==
    IF s.historyIndex > 0
    THEN LET prevIndex == s.historyIndex - 1
         IN  [s EXCEPT !.historyIndex = prevIndex, !.adjustments = s.history[prevIndex + 1]]
    ELSE s

\* Mutant: the position moves but the working vector is not restored
redo_KeepsVector(s) ==
    IF s.historyIndex < Len(s.history) - 1
    THEN [s EXCEPT !.historyIndex = s.historyIndex + 1]
    ELSE s

\* Mutant: redo jumps to the newest entry
redo_JumpsToLast(s) ==
    IF s.historyIndex < Len(s.history) - 1
    THEN [s EXCEPT !.historyIndex = Len(s.history) - 1,
                   !.adjustments = s.history[Len(s.history)]]
    ELSE s

redo(s) ==
    IF s.historyIndex < Len(s.history) - 1
    THEN LET nextIndex == s.historyIndex + 1
         IN  [s EXCEPT !.historyIndex = nextIndex, !.adjustments = s.history[nextIndex + 1]]
    ELSE s

\* Mutant: the new vector is built from the defaults, not from the working one
handleAdjustmentChange_FromDefaults(s, key, value) ==
    [s EXCEPT !.adjustments = [DEFAULT_ADJUSTMENTS EXCEPT ![key] = value]]

handleAdjustmentChange(s, key, value) ==
    [s EXCEPT !.adjustments = [s.adjustments EXCEPT ![key] = value]]

\* Mutant: the comparison with the current entry is missing
handleAdjustmentEnd_AlwaysPush(s) ==
    pushToHistory(s, s.adjustments)

handleAdjustmentEnd(s) ==
    IF JSONstringify(s.adjustments) # JSONstringify(Entry(s))
    THEN pushToHistory(s, s.adjustments)
    ELSE s

\* Mutant: reset commits through the comparing path
handleReset_SkipsEqual(s) ==
    handleAdjustmentEnd([s EXCEPT !.adjustments = DEFAULT_ADJUSTMENTS])

handleReset(s) ==
    pushToHistory([s EXCEPT !.adjustments = DEFAULT_ADJUSTMENTS], DEFAULT_ADJUSTMENTS)

(***************************************************************************)
(* Actions: one handler run                                                *)
(***************************************************************************)
Step(op, s) ==
    /\ adjustments' = s.adjustments
    /\ history' = s.history
    /\ historyIndex' = s.historyIndex
    /\ lastOp' = op
    /\ pre' = [adjustments |-> adjustments, history |-> history,
               historyIndex |-> historyIndex, op |-> lastOp]

\* The channels and values the free-input scenario drives the sliders with
InputChannels == {"brightness", "hue"}

InputValues(key) == {SliderMin, SliderMax(key)}

\* onChange of a slider: any channel, any value but the one the slider
\* shows (a range input fires the event when its value has changed, and
\* the value it shows is the channel of the working vector)
SetChannel ==
    \E key \in InputChannels : \E value \in InputValues(key) :
        /\ value # adjustments[key]
        /\ Step("setChannel", handleAdjustmentChange(St, key, value))

\* One slider of each maximum: 200, 360 and 100
RangeChannels == {"brightness", "hue", "sharpness"}

\* onChange of one of these sliders, at either end of its range
SlideToEnd ==
    \E key \in RangeChannels : \E value \in InputValues(key) :
        /\ value # adjustments[key]
        /\ Step("setChannel", handleAdjustmentChange(St, key, value))

\* onChange of the brightness slider, one unit up, once per gesture
DragStep ==
    /\ adjustments = Entry(St)
    /\ adjustments.brightness < DEFAULT_ADJUSTMENTS.brightness + MaxDrag
    /\ adjustments.brightness < SliderMax("brightness")
    /\ Step("setChannel", handleAdjustmentChange(St, "brightness", adjustments.brightness + 1))

\* onMouseUp / onTouchEnd of a slider
Commit == Step("commit", handleAdjustmentEnd(St))

Undo == Step("undo", undo(St))

Redo == Step("redo", redo(St))

Reset == Step("reset", handleReset(St))

(***************************************************************************)
(* Run counters (observers of the trace, not program state)                *)
(***************************************************************************)
Idle == UNCHANGED countVars

Appended == lastOp' = "commit" /\ JSONstringify(adjustments) # JSONstringify(Entry(St))

Count ==
    CASE Appended ->
            /\ commitRun' = IF undoRun > 0 THEN 1 ELSE Min(commitRun + 1, UNDO_STEPS)
            /\ undoRun' = 0
      [] lastOp' = "undo" ->
            /\ commitRun' = commitRun
            /\ undoRun' = Min(undoRun + 1, UNDO_STEPS)
      [] lastOp' \in {"redo", "reset"} ->
            /\ commitRun' = 0
            /\ undoRun' = 0
      [] OTHER ->
            /\ commitRun' = IF undoRun > 0 THEN 0 ELSE commitRun
            /\ undoRun' = 0

(***************************************************************************)
(* Part 2: GeminiService                                                   *)
(*                                                                         *)
(* A text (an error's toString(), a message) is the set of the words it    *)
(* contains; includes() is membership and toLowerCase() maps every word.   *)
(***************************************************************************)
\* callWithRetry(fn, retries = 3, delay = 1000)
DEFAULT_RETRIES == 3

DEFAULT_DELAY == 1000

\* process.env.API_KEY: not set, empty, blank, padded, plain
UNDEFINED == "<undefined>"

ApiKeys == {UNDEFINED, "", "  ", " k ", "k"}

\* String.prototype.trim on the values above
trim(str) ==
    CASE str = "  " -> ""
      [] str = " k " -> "k"
      [] OTHER -> str

\* Mutant: a blank credential counts as present
getCleanKey_NoTrim(env) == IF env = UNDEFINED THEN "" ELSE env

\* (process.env.API_KEY || "").trim()
getCleanKey(env) == trim(IF env = UNDEFINED THEN "" ELSE env)

\* String.prototype.toLowerCase, word by word
LowerWord(w) ==
    CASE w = "Quota" -> "quota"
      [] w = "Overloaded" -> "overloaded"
      [] w = "UNAVAILABLE" -> "unavailable"
      [] w = "Failed" -> "failed"
      [] w = "API_KEY_NOT_FOUND" -> "api_key_not_found"
      [] w = "Image" -> "image"
      [] w = "Refinement" -> "refinement"
      [] w = "Cannot" -> "cannot"
      [] w \in {"TITLE:", "Title:"} -> "title:"
      [] w \in {"PROMPT:", "Prompt:"} -> "prompt:"
      [] w \in {"TAGS:", "Tags:"} -> "tags:"
      [] OTHER -> w

toLowerCase(text) == {LowerWord(w) : w \in text}

includes(text, word) == word \in text

\* The failures the remote service answers a request with
Err429 == {"429"}

ErrQuota == {"Quota", "exceeded"}

Err503 == {"503", "UNAVAILABLE"}

ErrOverloaded == {"Overloaded"}

ErrNetwork == {"Failed", "to", "fetch"}

RemoteErrors == {Err429, ErrQuota, Err503, ErrOverloaded, ErrNetwork}

\* new Error("API_KEY_NOT_FOUND")
ErrKeyNotFound == {"API_KEY_NOT_FOUND"}

\* new Error("Image buffer empty. Safety filters may have engaged.")
ErrImageEmpty == {"Image", "buffer", "empty"}

\* new Error("Refinement stream interrupted.")
ErrRefineEmpty == {"Refinement", "stream", "interrupted"}

\* The TypeError of "content?.parts.find(...)" when content has no parts:
\* "Cannot read properties of undefined (reading 'find')"
ErrNoParts == {"Cannot", "read", "properties", "of", "undefined"}

NoErr == {}

Methods == {"testKeyAccess", "deepScanInternet", "generateStudioImage", "refineImage"}

\* What the remote service answers a request of a method with, when it
\* does not fail.  The response to an image call has a part with inline
\* data ("image"), has no candidate, no content or only parts without
\* inline data ("noimage"), or has a content without parts ("noparts")
Payloads(method) ==
    CASE method = "testKeyAccess" -> {"pong"}
      [] method = "deepScanInternet" -> {"text"}
      [] OTHER -> {"image", "noimage", "noparts"}

Responses(method) ==
    {[ok |-> TRUE, payload |-> p, err |-> NoErr] : p \in Payloads(method)}
        \cup {[ok |-> FALSE, payload |-> "none", err |-> e] : e \in RemoteErrors}

\* A call: where it is (pc), the arguments of the current callWithRetry
\* frame (retries, delay), and what it has done so far
NoOutcome == [status |-> "none", value |-> "none", err |-> NoErr]

\* attempts: runs of fn; requests: remote requests issued; waits: the
\* setTimeout delays slept through; log: per attempt, the failure fn
\* rejected with, or NoErr when it resolved
NoCall ==
    [method |-> "none", pc |-> "idle", retries |-> 0, delay |-> 0,
     attempts |-> 0, requests |-> 0, waits |-> <<>>, log |-> <<>>,
     outcome |-> NoOutcome]

Returned(c, value) ==
    [c EXCEPT !.pc = "settled", !.log = Append(@, NoErr),
              !.outcome = [status |-> "returned", value |-> value, err |-> NoErr]]

Thrown(c, err) ==
    [c EXCEPT !.pc = "settled",
              !.outcome = [status |-> "thrown", value |-> "none", err |-> err]]

isRetryable_Always(err) == TRUE

\* callWithRetry: msg.includes("429") || ... || msg.includes("overloaded")
isRetryable(err) ==
    LET msg == toLowerCase(err)
    IN  \/ includes(msg, "429")
        \/ includes(msg, "503")
        \/ includes(msg, "quota")
        \/ includes(msg, "overloaded")

\* Mutant: the budget is not consulted
catchBlock_IgnoresBudget(c, err) ==
    IF isRetryable(err)
    THEN [c EXCEPT !.pc = "delay", !.log = Append(@, err)]
    ELSE Thrown([c EXCEPT !.log = Append(@, err)], err)

\* callWithRetry, the catch block: sleep and retry, or rethrow
catchBlock(c, err) ==
    IF isRetryable(err) /\ c.retries > 0
    THEN [c EXCEPT !.pc = "delay", !.log = Append(@, err)]
    ELSE Thrown([c EXCEPT !.log = Append(@, err)], err)

\* "return await fn()": fn runs up to its remote request.  The fn of the
\* three content methods starts with getClient(), which throws when the
\* credential is missing; the fn of testKeyAccess is the request itself.
invokeFn(c, env) ==
    LET run == [c EXCEPT !.attempts = @ + 1]
    IN  IF c.method # "testKeyAccess" /\ getCleanKey(env) = ""
        THEN catchBlock(run, ErrKeyNotFound)
        ELSE [run EXCEPT !.requests = @ + 1, !.pc = "request"]

\* The remote request of a call in pc "request" is answered with r: fn
\* resolves, or rejects into the catch block
respond(c, r) ==
    CASE ~r.ok -> catchBlock(c, r.err)
      [] r.ok /\ c.method = "testKeyAccess" -> Returned(c, "pong")
      [] r.ok /\ c.method = "deepScanInternet" -> Returned(c, "prompts")
      [] r.ok /\ r.payload = "noparts" -> catchBlock(c, ErrNoParts)
      [] r.ok /\ c.method = "generateStudioImage" ->
            IF r.payload = "image" THEN Returned(c, "dataurl")
            ELSE catchBlock(c, ErrImageEmpty)
      [] OTHER ->
            IF r.payload = "image" THEN Returned(c, "dataurl")
            ELSE catchBlock(c, ErrRefineEmpty)

\* Mutant: the delay is not doubled
wake_SameDelay(c, env) ==
    invokeFn([c EXCEPT !.waits = Append(@, c.delay), !.retries = @ - 1], env)

\* The setTimeout of a call in pc "delay" fires:
\* "return this.callWithRetry(fn, retries - 1, delay * 2)"
wake(c, env) ==
    invokeFn([c EXCEPT !.waits = Append(@, c.delay),
                       !.retries = @ - 1, !.delay = @ * 2], env)

\* callWithRetry(fn) with the default budget and delay
callWithRetry(method, env) ==
    invokeFn([NoCall EXCEPT !.method = method, !.pc = "fn",
                            !.retries = DEFAULT_RETRIES, !.delay = DEFAULT_DELAY], env)

\* testKeyAccess up to its await: without a credential it returns at once
testKeyAccess(env) ==
    IF getCleanKey(env) = ""
    THEN [NoCall EXCEPT !.method = "testKeyAccess", !.pc = "settled",
                        !.outcome = [status |-> "skipped", value |-> "none", err |-> NoErr]]
    ELSE callWithRetry("testKeyAccess", env)

\* A public method is called
invoke(method, env) ==
    IF method = "testKeyAccess" THEN testKeyAccess(env) ELSE callWithRetry(method, env)

\* What a public method hands its caller when its call has settled: a
\* result (raised = FALSE) or a failure (raised = TRUE).  The result record
\* of testKeyAccess has text fields; "<undefined>" is a field not set.
NoResult ==
    [success |-> UNDEFINED, message |-> UNDEFINED, isQuota |-> UNDEFINED, details |-> NoErr]

\* Mutant: testKeyAccess without its try/catch
testKeyAccessSettle_NoCatch(c) ==
    IF c.outcome.status = "thrown"
    THEN [raised |-> TRUE, err |-> c.outcome.err, value |-> "none", result |-> NoResult]
    ELSE [raised |-> FALSE, err |-> NoErr, value |-> "none",
          result |-> [NoResult EXCEPT !.success = "true", !.message = "Neural Link Online"]]

testKeyAccessSettle(c) ==
    LET msg == toLowerCase(c.outcome.err)
        isQuota == includes(msg, "429") \/ includes(msg, "quota")
        result ==
            CASE c.outcome.status = "skipped" ->
                    [NoResult EXCEPT !.success = "false", !.message = "API Key Missing."]
              [] c.outcome.status = "returned" ->
                    [NoResult EXCEPT !.success = "true", !.message = "Neural Link Online"]
              [] OTHER ->
                    [success |-> "false",
                     message |-> IF isQuota THEN "Quota Alert" ELSE "Neural Static",
                     isQuota |-> IF isQuota THEN "true" ELSE "false",
                     details |-> c.outcome.err]
    IN  [raised |-> FALSE, err |-> NoErr, value |-> "none", result |-> result]

settle(c) ==
    CASE c.method = "testKeyAccess" -> testKeyAccessSettle(c)
      [] c.outcome.status = "thrown" ->
            [raised |-> TRUE, err |-> c.outcome.err, value |-> "none", result |-> NoResult]
      [] OTHER ->
            [raised |-> FALSE, err |-> NoErr, value |-> c.outcome.value, result |-> NoResult]

\* JavaScript truthiness of a field of the result record
Truthy(v) == v = "true"

(***************************************************************************)
(* One service call at a time, stepped from its call to what the caller    *)
(* gets                                                                    *)
(***************************************************************************)
NoLastCall ==
    [method |-> "none", raised |-> FALSE, err |-> NoErr, value |-> "none",
     result |-> NoResult, status |-> "none", thrown |-> NoErr,
     attempts |-> 0, requests |-> 0, waits |-> <<>>, log |-> <<>>]

\* The settled call c as its caller and an observer of the call saw it;
\* status and thrown are how callWithRetry itself ended
Observed(c) ==
    LET got == settle(c)
    IN  [method |-> c.method, raised |-> got.raised, err |-> got.err,
         value |-> got.value, result |-> got.result,
         status |-> c.outcome.status, thrown |-> c.outcome.err,
         attempts |-> c.attempts, requests |-> c.requests,
         waits |-> c.waits, log |-> c.log]

SvcCall ==
    /\ svc.pc = "idle"
    /\ \E method \in Methods : svc' = invoke(method, apiKey)
    /\ lastCall' = NoLastCall

SvcRespond ==
    /\ svc.pc = "request"
    /\ \E r \in Responses(svc.method) : svc' = respond(svc, r)
    /\ UNCHANGED lastCall

SvcWake ==
    /\ svc.pc = "delay"
    /\ svc' = wake(svc, apiKey)
    /\ UNCHANGED lastCall

SvcSettle ==
    /\ svc.pc = "settled"
    /\ lastCall' = Observed(svc)
    /\ svc' = NoCall

(***************************************************************************)
(* Part 3: App.tsx, connection health                                      *)
(***************************************************************************)
\* "setCooldown(30)"
COOLDOWN_SECONDS == 30

\* Overlapping checkHealth runs the model follows at once
MaxProbes == 2

ProbeSlots == 1..MaxProbes

\* What the user has typed into the search box
Queries == {"", "  ", "k"}

\* The error cell: null, or {msg, details, type}
NoError == [msg |-> "null", details |-> NoErr, type |-> "null"]

\* "The API endpoint is heavily throttled. Attempting automatic recovery..."
DetailsThrottled == {"The", "API", "endpoint", "is", "heavily", "throttled"}

\* The four cells the handlers below read and write
App ==
    [connection |-> connection, cooldown |-> cooldown,
     error |-> error, isSearching |-> isSearching]

\* Mutant: checkHealth does not re-enter checking
checkHealthStart_KeepsState(a) == a

\* checkHealth up to its await
checkHealthStart(a) == [a EXCEPT !.connection = "checking"]

\* Mutant: every failed probe is a hard error
checkHealthResume_AlwaysError(a, res) ==
    IF Truthy(res.success)
    THEN [a EXCEPT !.connection = "online", !.error = NoError]
    ELSE [a EXCEPT !.connection = "error",
                   !.error = [msg |-> res.message, details |-> res.details, type |-> "hard"]]

\* Mutant: a probe that fails on quota starts a cooldown
checkHealthResume_StartsCooldown(a, res) ==
    IF Truthy(res.success)
    THEN [a EXCEPT !.connection = "online", !.error = NoError]
    ELSE [a EXCEPT !.connection = IF Truthy(res.isQuota) THEN "throttled" ELSE "error",
                   !.cooldown = IF Truthy(res.isQuota) THEN COOLDOWN_SECONDS ELSE @,
                   !.error = [msg |-> res.message, details |-> res.details,
                              type |-> IF Truthy(res.isQuota) THEN "quota" ELSE "hard"]]

\* checkHealth after its await, res being what testKeyAccess returned
checkHealthResume(a, res) ==
    IF Truthy(res.success)
    THEN [a EXCEPT !.connection = "online", !.error = NoError]
    ELSE [a EXCEPT !.connection = IF Truthy(res.isQuota) THEN "throttled" ELSE "error",
                   !.error = [msg |-> res.message, details |-> res.details,
                              type |-> IF Truthy(res.isQuota) THEN "quota" ELSE "hard"]]

\* Mutant: the guard does not look at the cooldown
handleSearchReturnsEarly_IgnoresCooldown(a, searchQuery) ==
    trim(searchQuery) = "" \/ a.isSearching

\* Mutant: the guard does not look at the in-flight flag
handleSearchReturnsEarly_IgnoresFlag(a, searchQuery) ==
    trim(searchQuery) = "" \/ a.cooldown > 0

\* The guard of handleSearch
handleSearchReturnsEarly(a, searchQuery) ==
    trim(searchQuery) = "" \/ a.isSearching \/ a.cooldown > 0

\* handleSearch up to its await
handleSearchStart(a) == [a EXCEPT !.isSearching = TRUE, !.error = NoError]

\* handleSearch after its await, got being what deepScanInternet handed
\* back: the try branch or the catch branch, then the finally
handleSearchResume(a, got) ==
    LET errMsg == toLowerCase(got.err)
        after ==
            IF ~got.raised THEN a
            ELSE IF includes(errMsg, "429") \/ includes(errMsg, "quota")
            THEN [a EXCEPT !.cooldown = COOLDOWN_SECONDS,
                           !.error = [msg |-> "Neural Overload",
                                      details |-> DetailsThrottled, type |-> "quota"]]
            ELSE [a EXCEPT !.error = [msg |-> "Link Interrupted",
                                      details |-> got.err, type |-> "hard"]]
    IN  [after EXCEPT !.isSearching = FALSE]

\* Mutant: the effect has no branch that leaves throttled
cooldownEffect_StaysThrottled(a) == a

\* The effect on [cooldown, connection]: while cooldown > 0 it keeps the
\* one-second timer armed, at 0 it leaves throttled
cooldownEffect(a) ==
    IF a.cooldown > 0 THEN a
    ELSE IF a.connection = "throttled" THEN [a EXCEPT !.connection = "online"]
    ELSE a

\* The callback of that timer: setCooldown(c => c - 1)
cooldownTick(a) == [a EXCEPT !.cooldown = @ - 1]

(***************************************************************************)
(* Actions of part 3.  A handler runs to its await in one step and from    *)
(* the settling of the awaited call to its end in another.  React runs the *)
(* effect of a render whose dependencies changed before the next event.    *)
(***************************************************************************)
NoEvent == [kind |-> "init", status |-> "none", err |-> NoErr]

Event(kind, c) == [kind |-> kind, status |-> c.outcome.status, err |-> c.outcome.err]

\* The log of attempts is what an observer of one call sees, no handler
\* reads it: the calls the handlers await are followed without it
Unobserved(c) == [c EXCEPT !.log = <<>>]

AppStep(ev, a) ==
    /\ connection' = a.connection
    /\ cooldown' = a.cooldown
    /\ error' = a.error
    /\ isSearching' = a.isSearching
    /\ effectDue' = (a.connection # connection \/ a.cooldown # cooldown)
    /\ appEvent' = ev

\* A call settled without a request resumes its handler before any event
Resuming == search.pc = "settled" \/ \E i \in ProbeSlots : probes[i].pc = "settled"

Mounted == appEvent.kind # "init" /\ ~effectDue

Ready == Mounted /\ ~Resuming

\* A probe call has settled: checkHealth resumes
ProbeSettles(i, c) ==
    /\ probes' = [probes EXCEPT ![i] = NoCall]
    /\ AppStep(Event("probeDone", c), checkHealthResume(App, settle(c).result))

\* checkHealth is called and starts a call in a free slot
CheckHealthIn(i) ==
    /\ probes[i].pc = "idle"
    /\ \A j \in ProbeSlots : j < i => probes[j].pc # "idle"
    /\ probes' = [probes EXCEPT ![i] = Unobserved(testKeyAccess(apiKey))]
    /\ AppStep(Event("probeStart", NoCall), checkHealthStart(App))
    /\ UNCHANGED search

\* useEffect(() => { checkHealth(); }, [checkHealth]) at mount
Mount ==
    /\ appEvent.kind = "init"
    /\ CheckHealthIn(1)

\* onClick of the health indicator or of "Retry Connection"
CheckHealth ==
    /\ Ready
    /\ \E i \in ProbeSlots : CheckHealthIn(i)

\* testKeyAccess returned without a call (no credential)
ProbeReturns ==
    /\ Mounted
    /\ \E i \in ProbeSlots :
        /\ probes[i].pc = "settled"
        /\ ProbeSettles(i, probes[i])
    /\ UNCHANGED search

\* The remote service answers the request of a probe
ProbeRespond ==
    /\ Ready
    /\ \E i \in ProbeSlots :
        /\ probes[i].pc = "request"
        /\ \E r \in Responses("testKeyAccess") :
            LET c == Unobserved(respond(probes[i], r))
            IN  IF c.pc = "settled"
                THEN ProbeSettles(i, c)
                ELSE /\ probes' = [probes EXCEPT ![i] = c]
                     /\ AppStep(Event("remote", NoCall), App)
    /\ UNCHANGED search

\* The backoff delay of a probe has elapsed
ProbeWake ==
    /\ Ready
    /\ \E i \in ProbeSlots :
        /\ probes[i].pc = "delay"
        /\ probes' = [probes EXCEPT ![i] = Unobserved(wake(probes[i], apiKey))]
    /\ AppStep(Event("remote", NoCall), App)
    /\ UNCHANGED search

\* onSubmit of the search form
SearchSubmit ==
    /\ Ready
    /\ \E searchQuery \in Queries :
        IF handleSearchReturnsEarly(App, searchQuery)
        THEN /\ AppStep(Event("searchRejected", NoCall), App)
             /\ UNCHANGED search
        ELSE /\ search' = Unobserved(callWithRetry("deepScanInternet", apiKey))
             /\ AppStep(Event("searchStart", NoCall), handleSearchStart(App))
    /\ UNCHANGED probes

SearchSettles(c) ==
    /\ search' = NoCall
    /\ AppStep(Event("searchDone", c), handleSearchResume(App, settle(c)))

\* deepScanInternet threw before any request (no credential)
SearchThrows ==
    /\ Mounted
    /\ search.pc = "settled"
    /\ SearchSettles(search)
    /\ UNCHANGED probes

\* The remote service answers the request of the search
SearchRespond ==
    /\ Ready
    /\ search.pc = "request"
    /\ \E r \in Responses("deepScanInternet") :
        LET c == Unobserved(respond(search, r))
        IN  IF c.pc = "settled"
            THEN SearchSettles(c)
            ELSE /\ search' = c
                 /\ AppStep(Event("remote", NoCall), App)
    /\ UNCHANGED probes

\* The backoff delay of the search has elapsed
SearchWake ==
    /\ Ready
    /\ search.pc = "delay"
    /\ search' = Unobserved(wake(search, apiKey))
    /\ AppStep(Event("remote", NoCall), App)
    /\ UNCHANGED probes

\* The effect runs after a render that changed cooldown or connection
RunEffect ==
    /\ effectDue
    /\ AppStep(Event("effect", NoCall), cooldownEffect(App))
    /\ UNCHANGED <<probes, search>>

\* Mutant: the timer runs whether or not the effect armed it
Tick_Unarmed ==
    /\ Ready
    /\ AppStep(Event("tick", NoCall), cooldownTick(App))
    /\ UNCHANGED <<probes, search>>

\* One second passes with the timer armed
Tick ==
    /\ Ready
    /\ cooldown > 0
    /\ AppStep(Event("tick", NoCall), cooldownTick(App))
    /\ UNCHANGED <<probes, search>>

\* An observer of the probes (not program state): the slot of the
\* checkHealth run that started last, and the connection state that run
\* set when it resumed, "pending" until then
NoStarted == [slot |-> 0, outcome |-> "pending"]

Started == {i \in ProbeSlots : probes[i].pc = "idle" /\ probes'[i].pc # "idle"}

Completed == {i \in ProbeSlots : probes[i].pc # "idle" /\ probes'[i].pc = "idle"}

ObserveProbes ==
    lastStarted' =
        IF Started # {}
        THEN [slot |-> CHOOSE i \in Started : TRUE, outcome |-> "pending"]
        ELSE IF lastStarted.slot \in Completed
        THEN [lastStarted EXCEPT !.outcome = connection']
        ELSE lastStarted

(***************************************************************************)
(* Part 4: image calls.  PromptFinder lists one PromptCard per prompt      *)
(* found; a card synthesizes an image of its prompt (handleGenerate) and   *)
(* opens it in the editor; App refines the open image (handleAIEdit).      *)
(* The cards are mounted while no image is open; a card that is unmounted  *)
(* loses its cells, and the call it awaits goes on.                        *)
(***************************************************************************)
\* Prompts a discovery call lists, at most
MaxCards == 2

\* handleGenerate runs the model follows at once
MaxSynth == 2

SynthSlots == 1..MaxSynth

\* What the remote service answers the request of an image call with in
\* this part: an image, no image, a transient failure, a hard failure
ImageResponses(method) ==
    {r \in Responses(method) : r.ok \/ r.err \in {Err429, ErrNetwork}}

\* The cells of a card as useState creates them
NoCard == [isGenerating |-> FALSE, generatedImage |-> "null"]

\* A handleGenerate run: the card it belongs to, whether that card is
\* still mounted, the call it awaits
NoSynth == [card |-> 0, live |-> FALSE, call |-> NoCall]

\* The guard of handleGenerate of card i
handleGenerateReturnsEarly(cs, i) == cs[i].isGenerating

\* handleGenerate up to its await
handleGenerateStart(card) == [card EXCEPT !.isGenerating = TRUE]

\* handleGenerate after its await: try or catch, then finally
handleGenerateResume(card, got) ==
    [card EXCEPT !.generatedImage = IF got.raised THEN @ ELSE got.value,
                 !.isGenerating = FALSE]

\* The cells of App that handleAIEdit reads and writes
Studio == [activeImage |-> activeImage, isProcessing |-> isProcessing, error |-> error]

\* The guard of handleAIEdit
handleAIEditReturnsEarly(a) == a.activeImage = "null" \/ a.isProcessing

\* handleAIEdit up to its await
handleAIEditStart(a) == [a EXCEPT !.isProcessing = TRUE]

\* handleAIEdit after its await: try or catch, then finally
handleAIEditResume(a, got) ==
    LET after ==
            IF got.raised
            THEN [a EXCEPT !.error = [msg |-> "Refinement Sync Failed",
                                      details |-> got.err, type |-> UNDEFINED]]
            ELSE [a EXCEPT !.activeImage = got.value]
    IN  [after EXCEPT !.isProcessing = FALSE]

StudioStep(a) ==
    /\ activeImage' = a.activeImage
    /\ isProcessing' = a.isProcessing
    /\ error' = a.error

\* A settled call resumes its handler before any event
ImageResuming ==
    refine.pc = "settled" \/ \E k \in SynthSlots : synth[k].call.pc = "settled"

CardsMounted == activeImage = "null"

\* setFoundPrompts(result.prompts): a discovery call has listed n prompts
FoundPrompts ==
    /\ ~ImageResuming
    /\ cards = <<>>
    /\ \E n \in 1..MaxCards : cards' = [i \in 1..n |-> NoCard]
    /\ UNCHANGED <<synth, activeImage, isProcessing, refine, error>>

\* onClick of "Visualize Prompt" of a card
Generate ==
    /\ ~ImageResuming
    /\ CardsMounted
    /\ \E i \in DOMAIN cards :
        IF handleGenerateReturnsEarly(cards, i)
        THEN UNCHANGED <<cards, synth>>
        ELSE \E k \in SynthSlots :
                /\ synth[k].call.pc = "idle"
                /\ \A j \in SynthSlots : j < k => synth[j].call.pc # "idle"
                /\ cards' = [cards EXCEPT ![i] = handleGenerateStart(@)]
                /\ synth' = [synth EXCEPT ![k] =
                        [card |-> i, live |-> TRUE,
                         call |-> Unobserved(callWithRetry("generateStudioImage", apiKey))]]
    /\ UNCHANGED <<activeImage, isProcessing, refine, error>>

\* The remote service answers the request of a synthesis call
SynthRespond ==
    /\ ~ImageResuming
    /\ \E k \in SynthSlots :
        /\ synth[k].call.pc = "request"
        /\ \E r \in ImageResponses("generateStudioImage") :
            synth' = [synth EXCEPT ![k].call = Unobserved(respond(@, r))]
    /\ UNCHANGED <<cards, activeImage, isProcessing, refine, error>>

\* The backoff delay of a synthesis call has elapsed
SynthWake ==
    /\ ~ImageResuming
    /\ \E k \in SynthSlots :
        /\ synth[k].call.pc = "delay"
        /\ synth' = [synth EXCEPT ![k].call = Unobserved(wake(@, apiKey))]
    /\ UNCHANGED <<cards, activeImage, isProcessing, refine, error>>

\* A synthesis call has settled: handleGenerate resumes; the setState calls
\* of a run whose card has been unmounted do nothing
SynthResumes ==
    /\ \E k \in SynthSlots :
        /\ synth[k].call.pc = "settled"
        /\ synth' = [synth EXCEPT ![k] = NoSynth]
        /\ cards' = IF synth[k].live
                    THEN [cards EXCEPT ![synth[k].card] =
                            handleGenerateResume(@, settle(synth[k].call))]
                    ELSE cards
    /\ UNCHANGED <<activeImage, isProcessing, refine, error>>

\* onClick of "open in studio" of a card with an image: setActiveImage(img);
\* the cards unmount
OpenInStudio ==
    /\ ~ImageResuming
    /\ CardsMounted
    /\ \E i \in DOMAIN cards :
        /\ cards[i].generatedImage # "null"
        /\ activeImage' = cards[i].generatedImage
    /\ cards' = [i \in DOMAIN cards |-> NoCard]
    /\ synth' = [k \in SynthSlots |-> [synth[k] EXCEPT !.live = FALSE]]
    /\ UNCHANGED <<isProcessing, refine, error>>

\* onClick of "Back to Prompts": setActiveImage(null); the cards mount anew
BackToPrompts ==
    /\ ~ImageResuming
    /\ ~CardsMounted
    /\ activeImage' = "null"
    /\ UNCHANGED <<cards, synth, isProcessing, refine, error>>

\* onClick of "Refine" in the editor
AIEdit ==
    /\ ~ImageResuming
    /\ IF handleAIEditReturnsEarly(Studio)
       THEN UNCHANGED <<activeImage, isProcessing, error, refine>>
       ELSE /\ StudioStep(handleAIEditStart(Studio))
            /\ refine' = Unobserved(callWithRetry("refineImage", apiKey))
    /\ UNCHANGED <<cards, synth>>

\* The remote service answers the request of the refinement call
RefineRespond ==
    /\ ~ImageResuming
    /\ refine.pc = "request"
    /\ \E r \in ImageResponses("refineImage") : refine' = Unobserved(respond(refine, r))
    /\ UNCHANGED <<cards, synth, activeImage, isProcessing, error>>

\* The backoff delay of the refinement call has elapsed
RefineWake ==
    /\ ~ImageResuming
    /\ refine.pc = "delay"
    /\ refine' = Unobserved(wake(refine, apiKey))
    /\ UNCHANGED <<cards, synth, activeImage, isProcessing, error>>

\* The refinement call has settled: handleAIEdit resumes
RefineResumes ==
    /\ refine.pc = "settled"
    /\ StudioStep(handleAIEditResume(Studio, settle(refine)))
    /\ refine' = NoCall
    /\ UNCHANGED <<cards, synth>>

(***************************************************************************)
(* Part 5: the response parser of deepScanInternet.  A text is a sequence  *)
(* of tokens: the delimiter, a line break, a blank, a comma, a field label *)
(* or a word.                                                              *)
(***************************************************************************)
\* Sections of a response the model follows
MaxSections == 2

DELIMITER == "---"

NEWLINE == "\n"

BLANK == " "

COMMA == ","

\* What \s matches and trim() strips
Whitespace == {BLANK, NEWLINE}

\* The lines a section of the response is made of, <<>> for no such line.
\* The labels come in the case the request asks for and in title case, with
\* and without blanks around the values.
TitleLines ==
    {<<>>, <<"TITLE:", BLANK, "a">>, <<"Title:", "a", BLANK>>}

PromptLines ==
    {<<>>, <<"PROMPT:", BLANK, "b">>, <<"PROMPT:", "c", BLANK, "b", BLANK>>,
     <<"Prompt:", BLANK, "b">>}

TagsLines ==
    {<<>>, <<"TAGS:", BLANK, "x">>, <<"TAGS:", BLANK, "x", COMMA, BLANK, "y">>,
     <<"Tags:", "y", BLANK, COMMA, "x", BLANK>>}

Line(l) == IF l = <<>> THEN <<>> ELSE l \o <<NEWLINE>>

\* "---", then the lines of the section
SectionText(title, prompt, tags) ==
    <<DELIMITER, NEWLINE>> \o Line(title) \o Line(prompt) \o Line(tags)

SectionTexts ==
    {SectionText(t, p, g) : t \in TitleLines, p \in PromptLines, g \in TagsLines}

RECURSIVE Concat(_)
Concat(ss) == IF ss = <<>> THEN <<>> ELSE Head(ss) \o Concat(Tail(ss))

\* response.text || "": the texts of up to max sections
ResponseTexts(max) ==
    UNION {{Concat(ss) : ss \in [1..n -> SectionTexts]} : n \in 0..max}

\* First position from i on of a token in set, Len(text) + 1 if none
RECURSIVE IndexOf(_, _, _)
IndexOf(text, set, i) ==
    IF i > Len(text) THEN i
    ELSE IF text[i] \in set THEN i
    ELSE IndexOf(text, set, i + 1)

\* First position from i on of a token not in set, Len(text) + 1 if none
RECURSIVE IndexOfNot(_, _, _)
IndexOfNot(text, set, i) ==
    IF i > Len(text) THEN i
    ELSE IF text[i] \notin set THEN i
    ELSE IndexOfNot(text, set, i + 1)

\* String.prototype.split(separator)
RECURSIVE split(_, _)
split(text, separator) ==
    LET i == IndexOf(text, {separator}, 1)
    IN  IF i > Len(text) THEN <<text>>
        ELSE <<SubSeq(text, 1, i - 1)>> \o split(SubSeq(text, i + 1, Len(text)), separator)

\* String.prototype.trim() on a text
RECURSIVE trimEnd(_)
trimEnd(text) ==
    IF text # <<>> /\ text[Len(text)] \in Whitespace
    THEN trimEnd(SubSeq(text, 1, Len(text) - 1))
    ELSE text

trimText(text) ==
    trimEnd(SubSeq(text, IndexOfNot(text, Whitespace, 1), Len(text)))

\* s.includes('PROMPT:'): the label as written, case and all
includesLabel(section, label) == \E i \in 1..Len(section) : section[i] = label

NoMatch == [found |-> FALSE, group |-> <<>>]

\* section.match(/LABEL:\s*(.*)/i): the first label in any case, the
\* whitespace after it (line breaks too), then the rest of that line
match(section, label) ==
    LET at == IndexOf([i \in 1..Len(section) |-> LowerWord(section[i])], {label}, 1)
        from == IndexOfNot(section, Whitespace, at + 1)
        to == IndexOf(section, {NEWLINE}, from)
    IN  IF at > Len(section) THEN NoMatch
        ELSE [found |-> TRUE, group |-> SubSeq(section, from, to - 1)]

TITLE_PLACEHOLDER == <<"Style Trace">>

TAG_PLACEHOLDER == <<"Web Source">>

\* Mutant: the tags are not trimmed
parseTags_NoTrim(tagsMatch) ==
    IF tagsMatch.found THEN split(tagsMatch.group, COMMA) ELSE <<TAG_PLACEHOLDER>>

\* tagsMatch ? tagsMatch[1].split(',').map(t => t.trim()) : ["Web Source"]
parseTags(tagsMatch) ==
    IF tagsMatch.found
    THEN LET values == split(tagsMatch.group, COMMA)
         IN  [k \in 1..Len(values) |-> trimText(values[k])]
    ELSE <<TAG_PLACEHOLDER>>

\* The body of sections.forEach: the records one section adds
parseSection(section) ==
    LET titleMatch == match(section, "title:")
        promptMatch == match(section, "prompt:")
        tagsMatch == match(section, "tags:")
    IN  IF promptMatch.found
        THEN <<[title |-> IF titleMatch.found THEN trimText(titleMatch.group)
                          ELSE TITLE_PLACEHOLDER,
                prompt |-> trimText(promptMatch.group),
                tags |-> parseTags(tagsMatch),
                source |-> "Global Crawl"]>>
        ELSE <<>>

keepSection(section) == includesLabel(section, "PROMPT:")

\* Mutant: only the first section that passes the filter is parsed
parsePrompts_FirstOnly(text) ==
    LET sections == SelectSeq(split(text, DELIMITER), keepSection)
    IN  IF sections = <<>> THEN <<>> ELSE parseSection(sections[1])

\* text.split('---').filter(s => s.includes('PROMPT:')) and the forEach
parsePrompts(text) ==
    LET sections == SelectSeq(split(text, DELIMITER), keepSection)
    IN  Concat([k \in 1..Len(sections) |-> parseSection(sections[k])])

\* The request of a discovery call is answered with a text, which is
\* parsed; a call has one response
DeepScanResponse ==
    /\ responseText = <<>>
    /\ \E text \in ResponseTexts(MaxSections) :
        /\ responseText' = text
        /\ prompts' = parsePrompts(text)

(***************************************************************************)
(* Part 6: the CSS filter of components/ImageEditor.tsx.  A description is *)
(* the sequence of the terms that join(' ') puts together; the value of a  *)
(* term is kept as a fraction num/den, since sharpness * 0.2 and           *)
(* sharpness * 0.05 are not whole numbers.                                 *)
(***************************************************************************)
\* The vectors that get rendered: the sharpness values around the
\* threshold, two contrasts, two vibrances, the other channels at default
FilterVectors ==
    {[DEFAULT_ADJUSTMENTS EXCEPT !.sharpness = s, !.contrast = c, !.vibrance = v] :
        s \in {0, 40, 50, 51, 80}, c \in {100, 110}, v \in {100, 120}}

Term(fn, num, den, unit) == [fn |-> fn, num |-> num, den |-> den, unit |-> unit]

\* The '' that stands in for the term left out
EmptyTerm == Term("", 0, 1, "")

\* Mutant: the boost starts at sharpness 50
filterString_BoostFrom50(a) ==
    <<Term("brightness", a.brightness, 1, "%"),
      Term("contrast", 5 * a.contrast + a.sharpness, 5, "%"),
      Term("saturate", a.saturation + (a.vibrance - 100), 1, "%"),
      Term("opacity", a.exposure, 1, "%"),
      Term("hue-rotate", a.hue, 1, "deg"),
      IF a.sharpness >= 50 THEN Term("brightness", 2000 + a.sharpness, 20, "%")
      ELSE EmptyTerm>>

\* const filterString = [...].join(' ')
filterString(a) ==
    <<Term("brightness", a.brightness, 1, "%"),
      Term("contrast", 5 * a.contrast + a.sharpness, 5, "%"),
      Term("saturate", a.saturation + (a.vibrance - 100), 1, "%"),
      Term("opacity", a.exposure, 1, "%"),
      Term("hue-rotate", a.hue, 1, "deg"),
      IF a.sharpness > 50 THEN Term("brightness", 2000 + a.sharpness, 20, "%")
      ELSE EmptyTerm>>

\* The editor renders with either vector
RenderFilter ==
    /\ filterOut = <<>>
    /\ filterOut' = <<filterString(filterArgs[1]), filterString(filterArgs[2])>>
    /\ UNCHANGED filterArgs

(***************************************************************************)
(* Specifications                                                          *)
(***************************************************************************)
InitEditor ==
    /\ adjustments = DEFAULT_ADJUSTMENTS
    /\ history = <<DEFAULT_ADJUSTMENTS>>
    /\ historyIndex = 0
    /\ lastOp = "init"
    /\ pre = [adjustments |-> DEFAULT_ADJUSTMENTS, history |-> <<DEFAULT_ADJUSTMENTS>>,
              historyIndex |-> 0, op |-> "init"]
    /\ commitRun = 0
    /\ undoRun = 0
    /\ resetCount = 0

\* No call made yet; the cells of App as their useState calls create them
InitRemote ==
    /\ svc = NoCall
    /\ lastCall = NoLastCall
    /\ connection = "checking"
    /\ cooldown = 0
    /\ error = NoError
    /\ isSearching = FALSE
    /\ probes = [i \in ProbeSlots |-> NoCall]
    /\ search = NoCall
    /\ effectDue = FALSE
    /\ appEvent = NoEvent
    /\ lastStarted = NoStarted

\* No prompts listed, no image open, no image call made
InitImage ==
    /\ cards = <<>>
    /\ synth = [k \in SynthSlots |-> NoSynth]
    /\ activeImage = "null"
    /\ isProcessing = FALSE
    /\ refine = NoCall

\* No response received
InitParse ==
    /\ responseText = <<>>
    /\ prompts = <<>>

\* Nothing rendered
InitFilter ==
    /\ filterArgs = <<DEFAULT_ADJUSTMENTS, DEFAULT_ADJUSTMENTS>>
    /\ filterOut = <<>>

InitStudio == InitImage /\ InitParse /\ InitFilter

Init == InitEditor /\ apiKey = "k" /\ InitRemote /\ InitStudio

\* The editor is on its own: nothing of parts 2 and 3 moves
remoteVars == <<apiKey, lastStarted, svc, lastCall, connection, cooldown, error, isSearching,
                probes, search, effectDue, appEvent, studioVars>>

\* Free inputs on a short log
Next ==
    \/ SetChannel /\ Idle /\ UNCHANGED <<resetCount, remoteVars>>
    \/ Commit /\ Len(history') <= MaxHist /\ Idle /\ UNCHANGED <<resetCount, remoteVars>>
    \/ Undo /\ Idle /\ UNCHANGED <<resetCount, remoteVars>>
    \/ Redo /\ Idle /\ UNCHANGED <<resetCount, remoteVars>>
    \/ Reset /\ Len(history') <= MaxHist /\ Idle /\ UNCHANGED <<resetCount, remoteVars>>

Spec == Init /\ [][Next]_vars

\* One-unit gestures on a log that fills up and evicts; the resets, at most
\* MaxResets of them and from any state, come after the last gesture
NextLong ==
    \/ resetCount = 0 /\ DragStep /\ Idle /\ UNCHANGED <<resetCount, remoteVars>>
    \/ Commit /\ Idle /\ UNCHANGED <<resetCount, remoteVars>>
    \/ Undo /\ Idle /\ UNCHANGED <<resetCount, remoteVars>>
    \/ Redo /\ Idle /\ UNCHANGED <<resetCount, remoteVars>>
    \/ resetCount < MaxResets /\ Reset /\ Idle /\ resetCount' = resetCount + 1 /\ UNCHANGED remoteVars

SpecLong == Init /\ [][NextLong]_vars

\* One-unit gestures with the run counters observing
NextDepth ==
    \/ DragStep /\ Count /\ UNCHANGED <<resetCount, remoteVars>>
    \/ Commit /\ Count /\ UNCHANGED <<resetCount, remoteVars>>
    \/ Undo /\ Count /\ UNCHANGED <<resetCount, remoteVars>>
    \/ Redo /\ Count /\ UNCHANGED <<resetCount, remoteVars>>

SpecDepth == Init /\ [][NextDepth]_vars

\* The sliders of the three ranges driven to their ends, on a short log
NextRange ==
    \/ SlideToEnd /\ Idle /\ UNCHANGED <<resetCount, remoteVars>>
    \/ Commit /\ Len(history') <= MaxRangeHist /\ Idle /\ UNCHANGED <<resetCount, remoteVars>>
    \/ Undo /\ Idle /\ UNCHANGED <<resetCount, remoteVars>>
    \/ Redo /\ Idle /\ UNCHANGED <<resetCount, remoteVars>>
    \/ Reset /\ Len(history') <= MaxRangeHist /\ Idle /\ UNCHANGED <<resetCount, remoteVars>>

SpecRange == Init /\ [][NextRange]_vars

\* The credential is any of the values the environment can hold
InitKeys == InitEditor /\ apiKey \in ApiKeys /\ InitRemote /\ InitStudio

\* The service on its own: calls of the four public methods, one at a time
NextRetry ==
    \/ SvcCall /\ UNCHANGED <<apiKey, lastStarted, editorVars, appVars, studioVars>>
    \/ SvcRespond /\ UNCHANGED <<apiKey, lastStarted, editorVars, appVars, studioVars>>
    \/ SvcWake /\ UNCHANGED <<apiKey, lastStarted, editorVars, appVars, studioVars>>
    \/ SvcSettle /\ UNCHANGED <<apiKey, lastStarted, editorVars, appVars, studioVars>>

SpecRetry == InitKeys /\ [][NextRetry]_vars

\* The same with the event loop doing its part: a request is answered (the
\* promise of the SDK settles), a timer fires, a settled promise resumes
\* its awaiter
SpecRetryFair ==
    /\ InitKeys
    /\ [][NextRetry]_vars
    /\ WF_vars(SvcRespond /\ UNCHANGED <<apiKey, lastStarted, editorVars, appVars, studioVars>>)
    /\ WF_vars(SvcWake /\ UNCHANGED <<apiKey, lastStarted, editorVars, appVars, studioVars>>)
    /\ WF_vars(SvcSettle /\ UNCHANGED <<apiKey, lastStarted, editorVars, appVars, studioVars>>)

\* App: probes, searches, the cooldown
NextApp ==
    \/ Mount /\ UNCHANGED <<apiKey, lastStarted, editorVars, retryVars, studioVars>>
    \/ CheckHealth /\ UNCHANGED <<apiKey, lastStarted, editorVars, retryVars, studioVars>>
    \/ ProbeReturns /\ UNCHANGED <<apiKey, lastStarted, editorVars, retryVars, studioVars>>
    \/ ProbeRespond /\ UNCHANGED <<apiKey, lastStarted, editorVars, retryVars, studioVars>>
    \/ ProbeWake /\ UNCHANGED <<apiKey, lastStarted, editorVars, retryVars, studioVars>>
    \/ SearchSubmit /\ UNCHANGED <<apiKey, lastStarted, editorVars, retryVars, studioVars>>
    \/ SearchThrows /\ UNCHANGED <<apiKey, lastStarted, editorVars, retryVars, studioVars>>
    \/ SearchRespond /\ UNCHANGED <<apiKey, lastStarted, editorVars, retryVars, studioVars>>
    \/ SearchWake /\ UNCHANGED <<apiKey, lastStarted, editorVars, retryVars, studioVars>>
    \/ RunEffect /\ UNCHANGED <<apiKey, lastStarted, editorVars, retryVars, studioVars>>
    \/ Tick /\ UNCHANGED <<apiKey, lastStarted, editorVars, retryVars, studioVars>>

SpecApp == InitKeys /\ [][NextApp]_vars

\* The same with the event loop doing its part: a pending effect runs, a
\* settled promise resumes its awaiter, and the one-second timer, re-armed
\* by every run of the effect, gets to fire again and again
SpecAppFair ==
    /\ InitKeys
    /\ [][NextApp]_vars
    /\ WF_vars(RunEffect /\ UNCHANGED <<apiKey, lastStarted, editorVars, retryVars, studioVars>>)
    /\ WF_vars(ProbeReturns /\ UNCHANGED <<apiKey, lastStarted, editorVars, retryVars, studioVars>>)
    /\ WF_vars(SearchThrows /\ UNCHANGED <<apiKey, lastStarted, editorVars, retryVars, studioVars>>)
    /\ SF_vars(Tick /\ UNCHANGED <<apiKey, lastStarted, editorVars, retryVars, studioVars>>)

\* The same handlers with the probes observed: which checkHealth run
\* started last
NextOverlap ==
    \/ Mount /\ ObserveProbes /\ UNCHANGED <<apiKey, editorVars, retryVars, studioVars>>
    \/ CheckHealth /\ ObserveProbes /\ UNCHANGED <<apiKey, editorVars, retryVars, studioVars>>
    \/ ProbeReturns /\ ObserveProbes /\ UNCHANGED <<apiKey, editorVars, retryVars, studioVars>>
    \/ ProbeRespond /\ ObserveProbes /\ UNCHANGED <<apiKey, editorVars, retryVars, studioVars>>
    \/ ProbeWake /\ ObserveProbes /\ UNCHANGED <<apiKey, editorVars, retryVars, studioVars>>
    \/ SearchSubmit /\ ObserveProbes /\ UNCHANGED <<apiKey, editorVars, retryVars, studioVars>>
    \/ SearchThrows /\ ObserveProbes /\ UNCHANGED <<apiKey, editorVars, retryVars, studioVars>>
    \/ SearchRespond /\ ObserveProbes /\ UNCHANGED <<apiKey, editorVars, retryVars, studioVars>>
    \/ SearchWake /\ ObserveProbes /\ UNCHANGED <<apiKey, editorVars, retryVars, studioVars>>
    \/ RunEffect /\ ObserveProbes /\ UNCHANGED <<apiKey, editorVars, retryVars, studioVars>>
    \/ Tick /\ ObserveProbes /\ UNCHANGED <<apiKey, editorVars, retryVars, studioVars>>

SpecOverlap == InitKeys /\ [][NextOverlap]_vars

\* The image calls of a session in which a discovery call has listed
\* prompts
imageRest == <<apiKey, lastStarted, editorVars, retryVars, parseVars, filterVars,
               connection, cooldown, isSearching, probes, search, effectDue, appEvent>>

NextImage ==
    \/ FoundPrompts /\ UNCHANGED imageRest
    \/ Generate /\ UNCHANGED imageRest
    \/ SynthRespond /\ UNCHANGED imageRest
    \/ SynthWake /\ UNCHANGED imageRest
    \/ SynthResumes /\ UNCHANGED imageRest
    \/ OpenInStudio /\ UNCHANGED imageRest
    \/ BackToPrompts /\ UNCHANGED imageRest
    \/ AIEdit /\ UNCHANGED imageRest
    \/ RefineRespond /\ UNCHANGED imageRest
    \/ RefineWake /\ UNCHANGED imageRest
    \/ RefineResumes /\ UNCHANGED imageRest

SpecImage == Init /\ [][NextImage]_vars

\* The parser on the texts a discovery request may be answered with
NextParse ==
    DeepScanResponse /\ UNCHANGED <<apiKey, lastStarted, editorVars, retryVars, appVars, imageVars, filterVars>>

SpecParse == Init /\ [][NextParse]_vars

\* The filter on pairs of vectors
InitVectors ==
    /\ InitEditor /\ apiKey = "k" /\ InitRemote /\ InitImage /\ InitParse
    /\ filterArgs \in FilterVectors \X FilterVectors
    /\ filterOut = <<>>

NextFilter ==
    RenderFilter /\ UNCHANGED <<apiKey, lastStarted, editorVars, retryVars, appVars, imageVars, parseVars>>

SpecFilter == InitVectors /\ [][NextFilter]_vars

(***************************************************************************)
(* Claims about the adjustment history engine                              *)
(***************************************************************************)
\* The working vector equals the entry at the current position
Settled(s) == s.adjustments = Entry(s)

\* The three cells are what they were when the last handler started
Untouched ==
    /\ adjustments = pre.adjustments
    /\ history = pre.history
    /\ historyIndex = pre.historyIndex

\* The last handler was a commit that found the working vector different
\* from the entry at the position
CommitAppended ==
    lastOp = "commit" /\ JSONstringify(pre.adjustments) # JSONstringify(Entry(pre))

\* The entries 0..p of the log the last handler started with
PreKept == SubSeq(pre.history, 1, pre.historyIndex + 1)

\* C1: after any sequence of setChannel, commit, undo, redo and reset from
\* the initial one-entry log, the log holds between 1 and 25 entries and the
\* position is a valid index into it.
C1_LogBounded ==
    /\ Len(history) >= 1
    /\ Len(history) <= 25
    /\ historyIndex >= 0
    /\ historyIndex <= Len(history) - 1

\* C1 witness: a commit has just appended to a full log (and evicted).
C1_Witness ==
    /\ CommitAppended
    /\ Len(pre.history) = 25
    /\ pre.historyIndex = 24
    /\ Len(history) = 25
    /\ historyIndex = 24

\* C2 as stated: a commit of a vector that differs from the entry at
\* position p leaves exactly the old entries 0..p followed by the working
\* vector, the position at the new last index, and redo without effect.
C2_Original ==
    CommitAppended =>
        /\ history = Append(PreKept, pre.adjustments)
        /\ historyIndex = Len(history) - 1
        /\ redo(St) = St

\* C2 amended: the same, except that a commit made at position 24 of a full
\* log also drops the oldest entry; every old entry past p is gone in both
\* cases, the position is the new last index and redo changes nothing (so
\* no sequence of redo calls brings a discarded entry back).
C2_BranchTruncation ==
    CommitAppended =>
        /\ history = IF pre.historyIndex + 2 <= 25
                     THEN Append(PreKept, pre.adjustments)
                     ELSE Append(Tail(PreKept), pre.adjustments)
        /\ historyIndex = Len(history) - 1
        /\ redo(St) = St

\* C2 witness: a commit made after an undo has discarded a redo branch.
C2_Witness ==
    /\ CommitAppended
    /\ pre.op = "setChannel"
    /\ pre.historyIndex + 2 < Len(pre.history)
    /\ Len(history) = pre.historyIndex + 2
    /\ adjustments = history[Len(history)]

\* C3 as stated: in every state whose log has at least 2 entries, undo
\* followed immediately by redo leaves the working vector as it was before
\* the undo.  (Read in the state between the two calls: pre is the state the
\* undo started from.)
C3_Original ==
    [][(lastOp = "undo" /\ lastOp' = "redo" /\ Len(pre.history) >= 2)
          => adjustments' = pre.adjustments]_vars

\* C3 amended: the round trip restores the working vector when the undo
\* starts at a position greater than zero with no uncommitted edit.
C3_UndoRedo ==
    [][(/\ lastOp = "undo"
        /\ lastOp' = "redo"
        /\ Len(pre.history) >= 2
        /\ pre.historyIndex > 0
        /\ Settled(pre))
          => adjustments' = pre.adjustments]_vars

\* C3 witness: a redo has just followed an undo that moved the position and
\* changed the working vector, and has moved it forward again.
C3_Witness ==
    /\ lastOp = "redo"
    /\ pre.op = "undo"
    /\ pre.historyIndex + 1 < Len(pre.history)
    /\ pre.adjustments # pre.history[pre.historyIndex + 2]
    /\ historyIndex = pre.historyIndex + 1
    /\ adjustments = history[historyIndex + 1]

\* C4 as stated: the working vector equals the entry at the position unless
\* a setChannel has happened since the last commit, undo, redo or reset.
C4_Original ==
    lastOp # "setChannel" => Settled(St)

\* C4 amended: an undo at position zero and a redo at the last index do not
\* end an uncommitted edit.  Every commit, every reset and every undo or
\* redo that moves the position makes the working vector equal to the entry
\* at the position, and an undo or redo that does not move it keeps them
\* equal if they were.
C4_WorkingIsEntry ==
    (\/ lastOp \in {"init", "commit", "reset"}
     \/ lastOp \in {"undo", "redo"} /\ historyIndex # pre.historyIndex
     \/ lastOp \in {"undo", "redo"} /\ Settled(pre))
        => Settled(St)

\* C4 witness: an undo has discarded an uncommitted edit.
C4_Witness ==
    /\ lastOp = "undo"
    /\ pre.op = "setChannel"
    /\ ~Settled(pre)
    /\ historyIndex = pre.historyIndex - 1
    /\ Settled(St)

\* C5 as stated: right after any undo or redo, made in any state, the entry
\* at the position equals the working vector.
C5_Original ==
    lastOp \in {"undo", "redo"} => Entry(St) = adjustments

\* C5 amended: this holds after every undo or redo except one that is a
\* no-op (undo at position zero, redo at the last index) made while the
\* working vector holds an uncommitted edit.
C5_AfterUndoRedo ==
    (lastOp \in {"undo", "redo"} /\ ~(Untouched /\ ~Settled(pre)))
        => Entry(St) = adjustments

\* C5 witness: a redo made during an uncommitted edit has moved the position.
C5_Witness ==
    /\ lastOp = "redo"
    /\ ~Settled(pre)
    /\ historyIndex = pre.historyIndex + 1
    /\ Entry(St) = adjustments
    /\ adjustments # pre.adjustments

\* C6: a commit whose working vector equals the entry at the position changes
\* nothing, and a commit that directly follows a commit appends nothing: of
\* any number of commits in a row at most the first appends.
C6_CommitIdempotent ==
    /\ (lastOp = "commit" /\ \A k \in Channels : pre.adjustments[k] = Entry(pre)[k])
          => Untouched
    /\ (lastOp = "commit" /\ pre.op = "commit") => Untouched
    /\ lastOp = "commit" => Len(history) <= Len(pre.history) + 1

\* C6 witness: a commit made directly after a commit, at the end of a log
\* of at least 2 entries, has changed nothing.
C6_Witness ==
    /\ lastOp = "commit"
    /\ pre.op = "commit"
    /\ Len(history) >= 2
    /\ historyIndex = Len(history) - 1
    /\ Untouched

\* The last handler appended to a log of 25 entries with the position at the
\* last index
AppendedToFull ==
    /\ CommitAppended \/ lastOp = "reset"
    /\ Len(pre.history) = 25
    /\ pre.historyIndex = 24

\* C7: when a commit or reset appends to a log of 25 entries with the
\* position at the last index, exactly the oldest entry is evicted, the other
\* 24 keep their order, the new vector is last and the position is 24.
C7_Eviction ==
    AppendedToFull =>
        /\ Len(history) = 25
        /\ \A i \in 1..24 : history[i] = pre.history[i + 1]
        /\ history[25] = (IF lastOp = "reset" THEN DEFAULT_ADJUSTMENTS ELSE pre.adjustments)
        /\ historyIndex = 24

\* C7 witness: a reset has evicted the oldest entry of a full log.
C7_Witness ==
    /\ AppendedToFull
    /\ lastOp = "reset"
    /\ history[1] = pre.history[2]
    /\ history[1] # pre.history[1]

\* C8: after 25 or more appending commits of pairwise-different vectors with
\* no undo in between, each of 25 consecutive undo calls moves the position
\* back by one and restores the vector committed before.
C8_UndoDepth ==
    (lastOp = "undo" /\ commitRun >= 25 /\ undoRun >= 1 /\ undoRun <= 25)
        => /\ historyIndex = pre.historyIndex - 1
           /\ adjustments = pre.history[pre.historyIndex]

\* C9: reset sets the working vector to the default vector and appends it
\* after the entries 0..p, p the position it started from, whatever the entry
\* at p is; afterwards the position is the last index.
C9_Reset ==
    lastOp = "reset" =>
        /\ adjustments = [brightness |-> 100, contrast |-> 100, saturation |-> 100,
                          vibrance |-> 100, exposure |-> 100, hue |-> 0, sharpness |-> 0]
        /\ history[Len(history)] = adjustments
        /\ SubSeq(history, 1, Len(history) - 1) =
              (IF Len(PreKept) = 25 THEN Tail(PreKept) ELSE PreKept)
        /\ historyIndex = Len(history) - 1

\* C9 witness: a reset made after an undo, on an entry that already is the
\* default vector, has truncated and appended.
C9_Witness ==
    /\ lastOp = "reset"
    /\ pre.op = "undo"
    /\ Entry(pre) = DEFAULT_ADJUSTMENTS
    /\ pre.historyIndex + 1 < Len(pre.history)
    /\ Len(history) = pre.historyIndex + 2
    /\ history[Len(history)] = history[Len(history) - 1]

\* C10: undo at position zero and redo at the last index change nothing;
\* anywhere else undo moves the position by -1 and redo by +1, and the
\* working vector becomes the entry at the new position.
C10_UndoRedoGuards ==
    /\ lastOp = "undo" =>
          IF pre.historyIndex = 0
          THEN Untouched
          ELSE /\ historyIndex = pre.historyIndex - 1
               /\ adjustments = pre.history[historyIndex + 1]
    /\ lastOp = "redo" =>
          IF pre.historyIndex = Len(pre.history) - 1
          THEN Untouched
          ELSE /\ historyIndex = pre.historyIndex + 1
               /\ adjustments = pre.history[historyIndex + 1]

\* C10 witness: an undo at position zero during an uncommitted edit, on a
\* log that has a redo branch.
C10_Witness ==
    /\ lastOp = "undo"
    /\ pre.historyIndex = 0
    /\ Len(pre.history) >= 2
    /\ ~Settled(pre)
    /\ Untouched

\* C11: setChannel changes exactly one channel of the working vector and
\* leaves the other six channels, the log contents and the position
\* unchanged; undo and redo never change the log contents.
ChangedChannels == {k \in Channels : adjustments[k] # pre.adjustments[k]}

C11_Frames ==
    /\ lastOp = "setChannel" =>
            /\ Cardinality(ChangedChannels) = 1
            /\ Cardinality(Channels \ ChangedChannels) = 6
            /\ history = pre.history
            /\ historyIndex = pre.historyIndex
    /\ lastOp \in {"undo", "redo"} => history = pre.history

\* A channel set on a vector that already differs from the defaults in
\* another channel, with a log and a position an undo has moved on
C11_Witness ==
    /\ lastOp = "setChannel"
    /\ pre.op = "undo"
    /\ Len(history) > 1
    /\ adjustments.hue # pre.adjustments.hue
    /\ adjustments.brightness # DEFAULT_ADJUSTMENTS.brightness

\* C31: every vector stored in the log has every channel inside its
\* declared range (brightness, contrast, saturation, vibrance, exposure in
\* 0..200, hue in 0..360, sharpness in 0..100), the sliders being the only
\* source of channel values.
DeclaredRange(key) ==
    CASE key \in {"brightness", "contrast", "saturation", "vibrance", "exposure"} -> 0..200
      [] key = "hue" -> 0..360
      [] key = "sharpness" -> 0..100

InRange(v) == \A key \in Channels : v[key] \in DeclaredRange(key)

C31_LogInRange == \A i \in 1..Len(history) : InRange(history[i])

\* Hue 360 and sharpness 100 committed in one entry, brightness 200 on
\* top of them in the next
C31_Witness ==
    /\ Len(history) = 3
    /\ history[2].hue = 360
    /\ history[2].sharpness = 100
    /\ history[2].brightness = 100
    /\ history[3].brightness = 200
    /\ history[3].hue = 360
    /\ historyIndex = 2

(***************************************************************************)
(* Claims about the remote client                                          *)
(***************************************************************************)
\* The transient markers, looked for in the lower-cased text of a failure
TransientMarkers == {"429", "503", "quota", "overloaded"}

Transient(err) == \E m \in TransientMarkers : m \in toLowerCase(err)

\* A call has settled and its caller has what it handed back
Settles == lastCall.method # "none"

\* The caller got the success result of the method
GotSuccess ==
    /\ ~lastCall.raised
    /\ lastCall.err = NoErr
    /\ IF lastCall.method = "testKeyAccess"
       THEN lastCall.result.success = "true"
       ELSE lastCall.value \in {"prompts", "dataurl"}

\* C12: a remote call that fails with a transient marker on its first two
\* attempts and succeeds on the third returns the success result to the
\* caller after exactly three attempts and exactly two delays, the second
\* delay double the first (1000 ms then 2000 ms by default).
FailsTwiceThenSucceeds ==
    /\ Settles
    /\ Len(lastCall.log) >= 3
    /\ Transient(lastCall.log[1])
    /\ Transient(lastCall.log[2])
    /\ lastCall.log[3] = NoErr

C12_ThirdAttemptSucceeds ==
    FailsTwiceThenSucceeds =>
        /\ GotSuccess
        /\ lastCall.attempts = 3
        /\ lastCall.requests = 3
        /\ Len(lastCall.log) = 3
        /\ Len(lastCall.waits) = 2
        /\ lastCall.waits[2] = 2 * lastCall.waits[1]
        /\ lastCall.waits = <<1000, 2000>>

C12_Witness ==
    /\ FailsTwiceThenSucceeds
    /\ lastCall.method = "deepScanInternet"
    /\ lastCall.log = <<Err503, ErrQuota, NoErr>>

\* C13: a remote call whose first attempt fails with a failure that
\* carries none of the transient markers is attempted exactly once,
\* performs no delay, and propagates that failure to the caller.
FirstAttemptFailsHard ==
    /\ Settles
    /\ Len(lastCall.log) >= 1
    /\ lastCall.log[1] # NoErr
    /\ ~Transient(lastCall.log[1])

C13_HardFailureNotRetried ==
    FirstAttemptFailsHard =>
        /\ lastCall.attempts = 1
        /\ Len(lastCall.log) = 1
        /\ lastCall.waits = <<>>
        /\ lastCall.status = "thrown"
        /\ lastCall.thrown = lastCall.log[1]
        /\ lastCall.method # "testKeyAccess" =>
                lastCall.raised /\ lastCall.err = lastCall.log[1]

C13_Witness ==
    /\ FirstAttemptFailsHard
    /\ lastCall.method = "deepScanInternet"
    /\ lastCall.requests = 1
    /\ lastCall.err = ErrNetwork

\* C14: every remote call terminates: with the default budget of 3, a call
\* that fails transiently on every attempt makes exactly 4 attempts
\* separated by delays of 1000, 2000 and 4000 ms (each delay double the
\* previous, no cap), and then propagates the failure of its last attempt
\* unchanged; the budget decreases by one per retry and never goes below
\* zero.
InFlight == svc.pc \in {"request", "delay"}

\* The steps a call in flight can still take, at most
StepsLeft(c) ==
    CASE c.pc = "request" -> 2 * c.retries + 2
      [] c.pc = "delay" -> 2 * c.retries + 1
      [] OTHER -> 0

BudgetCountsDown ==
    InFlight =>
        /\ svc.retries \in 0..DEFAULT_RETRIES
        /\ svc.retries = DEFAULT_RETRIES - Len(svc.waits)
        /\ svc.attempts = Len(svc.waits) + 1
        /\ svc.pc = "delay" => svc.retries > 0

FailsOnEveryAttempt ==
    /\ Settles
    /\ Len(lastCall.log) >= 1
    /\ \A i \in 1..Len(lastCall.log) : Transient(lastCall.log[i])

ExhaustsBudget ==
    FailsOnEveryAttempt =>
        /\ lastCall.attempts = DEFAULT_RETRIES + 1
        /\ lastCall.attempts = 4
        /\ Len(lastCall.log) = 4
        /\ lastCall.waits = <<1000, 2000, 4000>>
        /\ lastCall.status = "thrown"
        /\ lastCall.thrown = lastCall.log[4]
        /\ lastCall.method # "testKeyAccess" =>
                lastCall.raised /\ lastCall.err = lastCall.log[4]

C14_Terminates ==
    /\ [](BudgetCountsDown /\ ExhaustsBudget)
    /\ [][InFlight => StepsLeft(svc') < StepsLeft(svc)]_vars
    /\ (InFlight ~> Settles)

C14_Witness ==
    /\ FailsOnEveryAttempt
    /\ lastCall.method = "generateStudioImage"
    /\ lastCall.log = <<Err429, ErrOverloaded, Err503, ErrQuota>>

\* C15: probeHealth (testKeyAccess) never raises a failure to its caller:
\* for every outcome of the remote call (success, transient failure
\* through budget exhaustion, hard failure) and for a missing credential,
\* it returns a result record, with reachable (success) false on every
\* failure.
ProbeSettled == Settles /\ lastCall.method = "testKeyAccess"

C15_ProbeNeverRaises ==
    ProbeSettled =>
        /\ ~lastCall.raised
        /\ lastCall.err = NoErr
        /\ lastCall.result.success \in {"true", "false"}
        /\ lastCall.result.message # UNDEFINED
        /\ lastCall.status \in {"returned", "thrown", "skipped"}
        /\ lastCall.status = "returned" <=> lastCall.result.success = "true"
        /\ lastCall.status \in {"thrown", "skipped"} => lastCall.result.success = "false"
        /\ lastCall.status = "skipped" <=> getCleanKey(apiKey) = ""

\* A probe that used up the budget on transient failures
C15_Witness ==
    /\ ProbeSettled
    /\ lastCall.attempts = 4
    /\ lastCall.status = "thrown"
    /\ lastCall.result.success = "false"

\* C16: when the API credential is absent or blank, none of testKeyAccess,
\* deepScanInternet, generateStudioImage and refineImage issues a remote
\* request, and none performs a retry or a backoff delay: the
\* credential-missing condition is produced before any remote call is
\* attempted.
CredentialMissing == apiKey \in {UNDEFINED, "", "  "}

C16_NoRequestWithoutCredential ==
    CredentialMissing =>
        /\ svc.pc \in {"idle", "settled"}
        /\ svc.requests = 0
        /\ svc.waits = <<>>
        /\ svc.attempts <= 1
        /\ Settles =>
            /\ lastCall.requests = 0
            /\ lastCall.waits = <<>>
            /\ lastCall.attempts <= 1
            /\ IF lastCall.method = "testKeyAccess"
               THEN /\ lastCall.status = "skipped"
                    /\ lastCall.result.message = "API Key Missing."
               ELSE /\ lastCall.raised
                    /\ lastCall.err = ErrKeyNotFound

C16_Witness ==
    /\ apiKey = "  "
    /\ Settles
    /\ lastCall.method = "refineImage"
    /\ lastCall.raised

\* C29: generateStudioImage and refineImage fail with the empty-result
\* failure whenever the response carries no inline image payload; that
\* failure is not transient, so the call ends with the request that was
\* answered so, without a further delay, and the failure reaches the
\* caller unchanged.
ImageMethods == {"generateStudioImage", "refineImage"}

EmptyResult(method) ==
    IF method = "generateStudioImage" THEN ErrImageEmpty ELSE ErrRefineEmpty

WithoutInlineData(method) ==
    {r \in Responses(method) : r.ok /\ r.payload # "image"}

\* The request of an image call is answered without inline data
AnsweredWithoutInlineData ==
    /\ svc.pc = "request"
    /\ svc.method \in ImageMethods
    /\ svc' \in {respond(svc, r) : r \in WithoutInlineData(svc.method)}

EmptyResultRaisedAtOnce ==
    AnsweredWithoutInlineData =>
        /\ svc'.pc = "settled"
        /\ svc'.outcome.status = "thrown"
        /\ svc'.outcome.err = EmptyResult(svc.method)
        /\ svc'.requests = svc.requests
        /\ svc'.waits = svc.waits

\* The caller of an image call whose first request was answered with the
\* empty-result failure
EmptyResultAtFirst ==
    /\ lastCall.method \in ImageMethods
    /\ lastCall.log # <<>>
    /\ lastCall.log[1] = EmptyResult(lastCall.method)

EmptyResultReachesCaller ==
    EmptyResultAtFirst =>
        /\ ~Transient(lastCall.log[1])
        /\ lastCall.requests = 1
        /\ lastCall.waits = <<>>
        /\ lastCall.raised
        /\ lastCall.err = EmptyResult(lastCall.method)

C29_EmptyResultFailure ==
    /\ [][EmptyResultRaisedAtOnce]_vars
    /\ []EmptyResultReachesCaller

(***************************************************************************)
(* Claims about connection health                                          *)
(***************************************************************************)
\* The quota markers, looked for in the lower-cased text of a failure
QuotaMarkers == {"429", "quota"}

Quota(err) == \E m \in QuotaMarkers : m \in toLowerCase(err)

\* checkHealth has just resumed from a probe that ...
ProbeDone == appEvent.kind = "probeDone"

ProbeSucceeded == ProbeDone /\ appEvent.status = "returned"

ProbeFailedQuota == ProbeDone /\ appEvent.status = "thrown" /\ Quota(appEvent.err)

ProbeFailedHard == ProbeDone /\ appEvent.status = "thrown" /\ ~Quota(appEvent.err)

ProbeWithoutCredential == ProbeDone /\ appEvent.status = "skipped"

\* handleSearch has just resumed from a discovery call that ...
SearchDone == appEvent.kind = "searchDone"

SearchFailedQuota == SearchDone /\ appEvent.status = "thrown" /\ Quota(appEvent.err)

SearchWithoutCredential ==
    SearchDone /\ appEvent.status = "thrown" /\ appEvent.err = ErrKeyNotFound

\* The connection state and the error class of App state a
View(a) == <<a.connection, a.error.type>>

\* What a probe and a discovery call that meet a hard remote failure
\* (a network failure) on their first attempt leave behind
AfterHardProbe ==
    checkHealthResume(App,
        settle(Thrown([NoCall EXCEPT !.method = "testKeyAccess"], ErrNetwork)).result)

AfterHardSearch ==
    handleSearchResume(App,
        settle(Thrown([NoCall EXCEPT !.method = "deepScanInternet"], ErrNetwork)))

\* C17: a missing credential is never reported as a generic remote failure:
\* for a probe and for a discovery call made without a credential, the
\* resulting connection state and error class differ from the ones
\* produced by a hard remote failure.
C17_MissingCredentialDistinct ==
    /\ ProbeWithoutCredential => View(App) # View(AfterHardProbe)
    /\ SearchWithoutCredential => View(App) # View(AfterHardSearch)

\* C18: the connection state starts as checking and a probe is run at
\* startup; when a probe completes, the state becomes online on success,
\* throttled on a failure classified as quota, and error on a failure
\* classified as hard, and the state never stays checking once the probe
\* has completed.
StartsChecking == appEvent.kind = "init" => connection = "checking"

ProbeOutcomeShown ==
    /\ ProbeSucceeded => connection = "online"
    /\ ProbeFailedQuota => connection = "throttled"
    /\ ProbeFailedHard => connection = "error"
    /\ ProbeDone => connection # "checking"

ProbeAtStartup ==
    appEvent.kind = "init" =>
        /\ appEvent'.kind = "probeStart"
        /\ probes'[1].method = "testKeyAccess"
        /\ probes'[1].pc \in {"request", "settled"}
        /\ connection' = "checking"

C18_ProbeOutcomes ==
    /\ [](StartsChecking /\ ProbeOutcomeShown)
    /\ [][ProbeAtStartup]_vars

\* A probe that used up the budget on quota failures
C18_Witness ==
    /\ ProbeFailedQuota
    /\ connection = "throttled"
    /\ error.type = "quota"

\* C19: a probe failure classified as quota puts the machine in throttled
\* with the cooldown counter set to a positive value, and the machine
\* stays throttled until the countdown has reached zero.
C19_ProbeQuotaCoolsDown ==
    ProbeFailedQuota => connection = "throttled" /\ cooldown > 0

\* C20: a discovery call whose terminal failure is classified as quota
\* puts the connection state in throttled and sets the cooldown counter
\* to 30.
C20_SearchQuotaThrottles ==
    SearchFailedQuota => connection = "throttled" /\ cooldown = 30

\* C21: while the state is throttled and the cooldown counter is positive,
\* each one-second tick decrements the counter by exactly one; under fair
\* ticking the counter eventually reaches zero, and at that point the state
\* becomes online without any probe being issued.
CoolingThrottled == connection = "throttled" /\ cooldown > 0

\* The countdown has ended in throttled and the effect has not yet run
CountdownEnded == connection = "throttled" /\ cooldown = 0

TickDecrements ==
    appEvent'.kind = "tick" => cooldown > 0 /\ cooldown' = cooldown - 1

OnlineWithoutProbe ==
    CountdownEnded =>
        /\ appEvent'.kind = "effect"
        /\ connection' = "online"
        /\ cooldown' = 0
        /\ probes' = probes

C21_CountdownToOnline ==
    /\ [][TickDecrements]_vars
    /\ [][OnlineWithoutProbe]_vars
    /\ (CoolingThrottled ~> CountdownEnded \/ connection # "throttled")
    /\ (cooldown > 0 ~> cooldown = 0)
    /\ (CountdownEnded ~> connection = "online")

\* The last tick of a countdown has just brought the counter to zero with
\* the state throttled
C21_Witness ==
    /\ appEvent.kind = "tick"
    /\ CountdownEnded
    /\ error.type = "quota"

\* C22: no discovery call is started in any state where the cooldown
\* counter is greater than zero: a discovery request made while
\* cooldown > 0 is rejected without issuing a remote request and without
\* changing any state.
SearchRequested == appEvent'.kind \in {"searchStart", "searchRejected"}

RejectedWhileCooling ==
    cooldown > 0 /\ SearchRequested =>
        /\ appEvent'.kind = "searchRejected"
        /\ search' = search
        /\ search.pc = "idle"
        /\ search.requests = 0
        /\ UNCHANGED <<connection, cooldown, error, isSearching, probes, effectDue>>

C22_NoSearchWhileCooling ==
    /\ [](cooldown > 0 => search.pc = "idle" /\ ~isSearching)
    /\ [][RejectedWhileCooling]_vars

\* A request with a query, made and rejected during a countdown
C22_Witness ==
    /\ appEvent.kind = "searchRejected"
    /\ cooldown > 0
    /\ cooldown < COOLDOWN_SECONDS
    /\ ~isSearching

\* C23: a manual re-check issued in any connection state (checking, online,
\* error, throttled, with or without a positive cooldown) sets the state
\* to checking and issues a new probe.
FreeSlot == \E i \in ProbeSlots : probes[i].pc = "idle"

\* checkHealth can be called whenever the event loop takes an event (and
\* the model has room to follow one more probe)
RecheckAlwaysPossible ==
    Ready /\ FreeSlot => ENABLED (CheckHealth /\ UNCHANGED <<apiKey, lastStarted, editorVars, retryVars, studioVars>>)

RecheckStartsProbe ==
    appEvent'.kind = "probeStart" =>
        /\ connection' = "checking"
        /\ cooldown' = cooldown
        /\ \E i \in ProbeSlots :
            /\ probes[i].pc = "idle"
            /\ probes'[i].method = "testKeyAccess"
            /\ probes'[i].attempts = 0 \/ probes'[i].attempts = 1
            /\ IF getCleanKey(apiKey) = ""
               THEN probes'[i].pc = "settled" /\ probes'[i].requests = 0
               ELSE probes'[i].pc = "request" /\ probes'[i].requests = 1
            /\ \A j \in ProbeSlots \ {i} : probes'[j] = probes[j]

C23_RecheckFromAnyState ==
    /\ []RecheckAlwaysPossible
    /\ [][RecheckStartsProbe]_vars

\* A re-check made during a countdown, after a probe that failed on quota,
\* while an earlier probe is still in flight
C23_Witness ==
    /\ appEvent.kind = "probeStart"
    /\ connection = "checking"
    /\ cooldown > 0
    /\ error.msg = "Quota Alert"
    /\ \A i \in ProbeSlots : probes[i].pc = "request"

\* C24: at most one discovery call is in flight at any time: a discovery
\* request made while an earlier one has not yet completed (including
\* while it is waiting in a backoff delay) starts no second call, and the
\* in-flight flag is cleared after every completion, success or failure.
SearchInFlight == search.pc # "idle"

RejectedWhileInFlight ==
    SearchInFlight /\ SearchRequested =>
        /\ appEvent'.kind = "searchRejected"
        /\ search' = search
        /\ isSearching' = isSearching

FlagClearedOnCompletion ==
    appEvent'.kind = "searchDone" =>
        /\ SearchInFlight
        /\ isSearching
        /\ ~isSearching'
        /\ search'.pc = "idle"

C24_OneSearchInFlight ==
    /\ [](isSearching <=> SearchInFlight)
    /\ [][RejectedWhileInFlight]_vars
    /\ [][FlagClearedOnCompletion]_vars

\* A request made and rejected while the call in flight sleeps before its
\* third attempt
C24_Witness ==
    /\ appEvent.kind = "searchRejected"
    /\ isSearching
    /\ search.pc = "delay"
    /\ search.attempts = 2

\* C26: after the retry budget is exhausted, the terminal failure is
\* classified for messaging with the markers the retry loop uses: for a
\* probe and for a discovery call, the failure that reaches the handler is
\* classified quota exactly when the retry loop classifies it transient
\* (429, 503, quota, overloaded), and hard otherwise.
ClassifiedQuota == error.type = "quota"

ClassifiedHard == error.type = "hard"

TerminalFailure ==
    /\ ProbeDone \/ SearchDone
    /\ appEvent.status = "thrown"

C26_TerminalClassifiedAsRetried ==
    TerminalFailure =>
        /\ ClassifiedQuota <=> Transient(appEvent.err)
        /\ ClassifiedHard <=> ~Transient(appEvent.err)

\* C32: the cooldown counter is always an integer from 0 to 30; it is set
\* to 30 only by a discovery failure classified as quota, which happens
\* only while it is 0; it is decremented only while positive, by a tick;
\* it never becomes negative, whatever the interleaving of ticks, probes
\* and discovery completions.
CooldownInRange == cooldown \in 0..30

SetByQuotaSearch ==
    /\ cooldown = 0
    /\ cooldown' = 30
    /\ appEvent'.kind = "searchDone"
    /\ appEvent'.status = "thrown"
    /\ Quota(appEvent'.err)

DecrementedByTick ==
    /\ cooldown > 0
    /\ cooldown' = cooldown - 1
    /\ appEvent'.kind = "tick"

CooldownChanges == cooldown' # cooldown => SetByQuotaSearch \/ DecrementedByTick

C32_CooldownBounded ==
    /\ []CooldownInRange
    /\ [][CooldownChanges]_vars

\* A discovery call fails on quota while a probe is in flight
C32_Witness ==
    /\ appEvent.kind = "searchDone"
    /\ cooldown = 30
    /\ \E i \in ProbeSlots : probes[i].pc = "request"

\* C33: when two probes overlap (a re-check is issued before an earlier
\* probe has completed), then once both have completed the connection
\* state is the outcome of the probe that was started last.
NoProbeInFlight == \A i \in ProbeSlots : probes[i].pc = "idle"

C33_LastStartedWins ==
    ProbeDone /\ NoProbeInFlight => connection = lastStarted.outcome

\* C34: a health probe, whatever its outcome, leaves the cooldown counter
\* unchanged, and a discovery call, whatever its outcome, leaves the
\* connection state unchanged; so a successful re-check during a cooldown
\* gives the state online while discovery requests are still rejected
\* until the counter reaches zero.
ProbeStep == probes' # probes \/ appEvent'.kind \in {"probeStart", "probeDone"}

SearchStep ==
    search' # search \/ appEvent'.kind \in {"searchStart", "searchDone", "searchRejected"}

ProbeKeepsCooldown == ProbeStep => cooldown' = cooldown

SearchKeepsConnection == SearchStep => connection' = connection

SearchRejected == \A searchQuery \in Queries : handleSearchReturnsEarly(App, searchQuery)

OnlineWhileCooling ==
    ProbeSucceeded /\ cooldown > 0 => connection = "online" /\ SearchRejected

C34_ProbeAndSearchFrames ==
    /\ [][ProbeKeepsCooldown]_vars
    /\ [][SearchKeepsConnection]_vars
    /\ []OnlineWhileCooling
    /\ [](cooldown > 0 => SearchRejected)

\* A re-check has succeeded in the middle of a countdown
C34_Witness ==
    /\ ProbeSucceeded
    /\ cooldown \in 1..29
    /\ connection = "online"
    /\ error = NoError
    /\ ~isSearching

(***************************************************************************)
(* Claims about the response parser.  The claims are stated on the lines   *)
(* of a section: a field is a line that starts with its label.  The        *)
(* prompt-body label is PROMPT: as the request spells it; the title and    *)
(* tags labels are taken in any case.                                      *)
(***************************************************************************)
\* The delimited sections of the response, in order
Sections == Tail(split(responseText, DELIMITER))

Lines(section) == split(section, NEWLINE)

IsPromptLine(line) == line # <<>> /\ line[1] = "PROMPT:"

IsTitleLine(line) == line # <<>> /\ line[1] \in {"TITLE:", "Title:"}

IsTagsLine(line) == line # <<>> /\ line[1] \in {"TAGS:", "Tags:"}

CarriesPrompt(section) == SelectSeq(Lines(section), IsPromptLine) # <<>>

\* The sections that carry a prompt-body field, in order
Carrying == SelectSeq(Sections, CarriesPrompt)

IsWord(token) == token \notin Whitespace \cup {COMMA}

\* The words of a field line, the label left out
Words(line) == SelectSeq(Tail(line), IsWord)

\* The words of the prompt body, separated by single blanks
RECURSIVE Spaced(_)
Spaced(words) ==
    IF Len(words) <= 1 THEN words
    ELSE <<Head(words), BLANK>> \o Spaced(Tail(words))

PromptBody(section) == Spaced(Words(SelectSeq(Lines(section), IsPromptLine)[1]))

C27_InOrder ==
    /\ Len(Carrying) = 2
    /\ Len(prompts) = 2
    /\ prompts[1].prompt = <<"b">>
    /\ prompts[2].prompt = <<"c", BLANK, "b">>

\* C28: for every parsed section, a missing title yields the placeholder
\* title, missing tags yield the one-element sequence of the placeholder
\* tag, and present tags yield the comma-separated values, each trimmed,
\* in their order.
TitleMissing(section) == SelectSeq(Lines(section), IsTitleLine) = <<>>

TagsMissing(section) == SelectSeq(Lines(section), IsTagsLine) = <<>>

\* The values of the tags line, each of one word here
TagValues(section) ==
    LET words == Words(SelectSeq(Lines(section), IsTagsLine)[1])
    IN  [k \in 1..Len(words) |-> <<words[k]>>]

C28_DefaultsAndTags ==
    /\ Len(prompts) = Len(Carrying)
    /\ \A i \in 1..Len(Carrying) :
        /\ TitleMissing(Carrying[i]) => prompts[i].title = TITLE_PLACEHOLDER
        /\ TagsMissing(Carrying[i]) => prompts[i].tags = <<TAG_PLACEHOLDER>>
        /\ ~TagsMissing(Carrying[i]) => prompts[i].tags = TagValues(Carrying[i])

\* A section without a title whose tags are written "y ,x ", and a section
\* without tags
C28_Witness ==
    /\ Len(prompts) = 2
    /\ TitleMissing(Carrying[1])
    /\ prompts[1].title = TITLE_PLACEHOLDER
    /\ prompts[1].tags = << <<"y">>, <<"x">> >>
    /\ TagsMissing(Carrying[2])
    /\ prompts[2].title = <<"a">>
    /\ prompts[2].tags = <<TAG_PLACEHOLDER>>

(***************************************************************************)
(* Claims about the CSS filter                                             *)
(***************************************************************************)
Rendered == filterOut # <<>>

\* The description has a second brightness term, the luminance boost
HasLuminanceTerm(description) ==
    Cardinality({i \in 1..Len(description) : description[i].fn = "brightness"}) = 2

\* C30: the description depends on the vector only (equal vectors give
\* equal descriptions) and has the extra luminance term exactly when
\* sharpness is greater than 50: not for 0, 40 and 50, but for 51 and 80.
C30_FilterOfVector ==
    Rendered =>
        /\ filterArgs[1] = filterArgs[2] => filterOut[1] = filterOut[2]
        /\ \A i \in 1..2 :
            /\ HasLuminanceTerm(filterOut[i]) <=> filterArgs[i].sharpness > 50
            /\ filterArgs[i].sharpness \in {0, 40, 50} => ~HasLuminanceTerm(filterOut[i])
            /\ filterArgs[i].sharpness \in {51, 80} => HasLuminanceTerm(filterOut[i])

\* Sharpness 50 and 51 rendered side by side
C30_Witness ==
    /\ Rendered
    /\ filterArgs[1].sharpness = 50
    /\ filterArgs[2].sharpness = 51
    /\ ~HasLuminanceTerm(filterOut[1])
    /\ HasLuminanceTerm(filterOut[2])
    /\ filterOut[2][6] = Term("brightness", 2051, 20, "%")

(***************************************************************************)
(* Claims about image calls                                                *)
(***************************************************************************)
\* The image calls that have been started and have not completed
ImageCallsInFlight ==
    Cardinality({k \in SynthSlots : synth[k].call.pc # "idle"})
        + (IF refine.pc # "idle" THEN 1 ELSE 0)

\* C25: at most one image call (synthesis or refinement) is in flight at
\* any time in a session, for every interleaving of synthesis requests on
\* the listed prompt records and refinement requests on the active image.
C25_OneImageCallInFlight == ImageCallsInFlight <= 1

====
